---- MODULE Spec2Model ----
(***************************************************************************)
(* The vision store (stage-ui/src/stores/modules/vision.ts), the vision    *)
(* settings page that drives it and the runtime it runs in: an event loop  *)
(* in which every handler runs from one await to the next without being    *)
(* interrupted, and device, directory and provider requests complete as    *)
(* separate events.                                                        *)
(***************************************************************************)
EXTENDS Bags, FiniteSets, Integers, Sequences, TLC

\* ------------------------------------------------------------------ bounds
\* Calls of asynchronous store operations that may be suspended at once.
MaxCalls == 2
\* Media streams the device layer hands out in one behaviour.
MaxStreams == 2
\* Timer ticks that pass the tick guard in one behaviour.
MaxTicks == 2
\* Provider responses that succeed in one behaviour (the clock of Date.now()).
MaxResults == 2
\* Largest width and height, in pixels, of the video frames and of the
\* per-call bounds that the frame-size arithmetic is explored for.
MaxSide == 7

\* --------------------------------------------------------------- constants
NoStream == 0
NoImage == 0
NoTimer == 0
NoError == <<>>
NoSourceId == <<>>

\* Desktop source ids, "screen:0:0", "window:1:0" and "screen:1:0", each as
\* prefix and rest.
ScreenId == <<"screen:", "0:0">>
WindowId == <<"window:", "1:0">>
Screen2Id == <<"screen:", "1:0">>

\* What desktopCapturer.getSources can answer, in its order.
Directories ==
    {<<>>, <<WindowId>>, <<ScreenId, Screen2Id>>, <<WindowId, ScreenId, Screen2Id>>}

\* How a device request (getUserMedia, getDisplayMedia) can fail: the name
\* of the error it rejects with, which tells the kind of failure, and the
\* error's message, the text the code searches for words; a message may
\* hold the name, and need not.
DeviceErrors ==
    { [name |-> "NotAllowedError", message |-> <<"Permission denied">>],
      [name |-> "NotFoundError",   message |-> <<"NotFoundError">>],
      [name |-> "NotFoundError",   message |-> <<"Requested device not found">>],
      [name |-> "AbortError",      message |-> <<"AbortError">>] }
Includes(msg, word) == \E i \in 1..Len(msg) : msg[i] = word

\* The text of a provider response: res.text may be absent.
ResponseTexts == {"A code editor is open.", "", "undefined"}

NoResult == [timestamp |-> 0, description |-> "null"]

\* A property an options object does not have.
Absent == 0

\* Qualities are in hundredths: 70 is 0.7.
DEFAULT_CAPTURE_OPTIONS == [maxWidth |-> 1280, maxHeight |-> 720, quality |-> 70]
NoOptions == [maxWidth |-> Absent, maxHeight |-> Absent, quality |-> Absent]

\* The size of the frames a stream delivers when nothing else is said.
DefaultVideo == [width |-> 1920, height |-> 1080]

\* No canvas was drawn.
NoCanvas == [options |-> NoOptions, width |-> 0, height |-> 0, quality |-> 0]

DefaultSettings ==
    [ activeVisionProvider    |-> "",
      activeVisionModel       |-> "",
      activeCustomModelName   |-> "",
      captureSource           |-> "screen",
      analysisMode            |-> "on-demand",
      captureIntervalMs       |-> 5000,
      compressionQuality      |-> 70,
      maxImageWidth           |-> 1280,
      maxImageHeight          |-> 720,
      selectedDesktopSourceId |-> NoSourceId ]

VARIABLES
    isElectron,                \* 'electron' in window
    mediaDevices,              \* navigator.mediaDevices and its requests exist
    video,                     \* videoWidth and videoHeight of a stream's frames
    settings,                  \* the persisted settings
    isCapturing,
    isAnalyzing,
    lastAnalysisResult,
    analysisError,
    currentStream,
    previewImageDataUrl,
    availableDesktopSources,
    isLoadingDesktopSources,
    captureIntervalId,
    timers,                    \* the runtime's live interval timers
    liveStreams,               \* acquired streams whose tracks were not stopped
    acquired,                  \* number of streams handed out so far
    calls,                     \* bag of suspended calls, each at its await
    clock,                     \* number of results recorded (Date.now())
    ticksPassed,               \* ticks that found the guard true
    timerRequests,             \* provider requests of calls made by a tick
    canvas,                    \* the canvas captureFrame encoded in the last step
    ev                         \* returns of the last step, in order

vars == <<isElectron, mediaDevices, video, settings, isCapturing, isAnalyzing,
          lastAnalysisResult, analysisError, currentStream, previewImageDataUrl,
          availableDesktopSources, isLoadingDesktopSources, captureIntervalId,
          timers, liveStreams, acquired, calls, clock, ticksPassed,
          timerRequests, canvas, ev>>

\* The mutable state as one record, so that a handler is a function on it.
State ==
    [ settings                |-> settings,
      isCapturing             |-> isCapturing,
      isAnalyzing             |-> isAnalyzing,
      lastAnalysisResult      |-> lastAnalysisResult,
      analysisError           |-> analysisError,
      currentStream           |-> currentStream,
      previewImageDataUrl     |-> previewImageDataUrl,
      availableDesktopSources |-> availableDesktopSources,
      isLoadingDesktopSources |-> isLoadingDesktopSources,
      captureIntervalId       |-> captureIntervalId,
      timers                  |-> timers,
      liveStreams             |-> liveStreams,
      acquired                |-> acquired,
      calls                   |-> calls,
      clock                   |-> clock,
      ticksPassed             |-> ticksPassed,
      timerRequests           |-> timerRequests,
      canvas                  |-> NoCanvas,
      ev                      |-> <<>> ]

Install(s) ==
    /\ settings' = s.settings
    /\ isCapturing' = s.isCapturing
    /\ isAnalyzing' = s.isAnalyzing
    /\ lastAnalysisResult' = s.lastAnalysisResult
    /\ analysisError' = s.analysisError
    /\ currentStream' = s.currentStream
    /\ previewImageDataUrl' = s.previewImageDataUrl
    /\ availableDesktopSources' = s.availableDesktopSources
    /\ isLoadingDesktopSources' = s.isLoadingDesktopSources
    /\ captureIntervalId' = s.captureIntervalId
    /\ timers' = s.timers
    /\ liveStreams' = s.liveStreams
    /\ acquired' = s.acquired
    /\ calls' = s.calls
    /\ clock' = s.clock
    /\ ticksPassed' = s.ticksPassed
    /\ timerRequests' = s.timerRequests
    /\ canvas' = s.canvas
    /\ ev' = s.ev
    /\ UNCHANGED <<isElectron, mediaDevices, video>>

\* A call suspended at an await: who made it, the store operation it is in,
\* the request it waits for, and the locals it needs when it resumes.
Frame(caller, op, pc, branch, sid, img) ==
    [caller |-> caller, op |-> op, pc |-> pc, branch |-> branch, sid |-> sid,
     img |-> img, opts |-> NoOptions]

Suspend(s, f) == [s EXCEPT !.calls = @ (+) SetToBag({f})]
Resume(s, f) == [s EXCEPT !.calls = @ (-) SetToBag({f})]
Suspended == BagToSet(calls)
At(pc) == {f \in Suspended : f.pc = pc}

\* An operation returns to its caller: ok tells a result from the sentinel
\* (false, empty), exit names the return statement taken.
Return(s, caller, op, ok, exit) ==
    [s EXCEPT !.ev = Append(@, [caller |-> caller, op |-> op, ok |-> ok,
                                exit |-> exit])]

configured(s) ==
    s.settings.activeVisionProvider # "" /\ s.settings.activeVisionModel # ""
\* ------------------------------------------------------- store operations

\* stopContinuousCapture()
stopContinuousCapture(s) ==
    IF s.captureIntervalId # NoTimer
    THEN [s EXCEPT !.timers = {t \in @ : t.id # s.captureIntervalId},
                   !.captureIntervalId = NoTimer]
    ELSE s

\* setInterval hands out an id no live timer has.
FreshTimer(s) ==
    CHOOSE n \in 1..(Cardinality(s.timers) + 1) : \A t \in s.timers : t.id # n

\* startContinuousCapture() scheduling a timer without cancelling the old one
startContinuousCaptureNoCancel(s) ==
    IF s.settings.analysisMode # "continuous"
    THEN s
    ELSE LET id == FreshTimer(s)
         IN [s EXCEPT !.timers = @ \cup {[id |-> id,
                                           interval |-> s.settings.captureIntervalMs]},
                      !.captureIntervalId = id]

\* startContinuousCapture()
startContinuousCapture(s) ==
    IF s.settings.analysisMode # "continuous"
    THEN s
    ELSE LET s1 == stopContinuousCapture(s)
             id == FreshTimer(s1)
         IN [s1 EXCEPT !.timers = @ \cup {[id |-> id,
                                            interval |-> s1.settings.captureIntervalMs]},
                       !.captureIntervalId = id]

\* stopCapture() clearing the error message as well
stopCaptureClearsError(s) ==
    LET s1 == IF s.currentStream # NoStream
              THEN [s EXCEPT !.liveStreams = @ \ {s.currentStream},
                             !.currentStream = NoStream]
              ELSE s
    IN [s1 EXCEPT !.isCapturing = FALSE, !.previewImageDataUrl = NoImage,
                  !.analysisError = NoError]

\* stopCapture() abandoning the analysis calls that wait for their provider
stopCaptureCancelling(s) ==
    LET s1 == IF s.currentStream # NoStream
              THEN [s EXCEPT !.liveStreams = @ \ {s.currentStream},
                             !.currentStream = NoStream]
              ELSE s
        waiting == {f \in BagToSet(s.calls) :
                        f.pc \in {"getProviderInstance", "generateText"}}
    IN [s1 EXCEPT !.isCapturing = FALSE, !.previewImageDataUrl = NoImage,
                  !.isAnalyzing = FALSE,
                  !.calls = [f \in BagToSet(s.calls) \ waiting |-> s.calls[f]]]

\* stopCapture() releasing the stream without stopping its tracks
stopCaptureKeepsTracks(s) ==
    [s EXCEPT !.currentStream = NoStream, !.isCapturing = FALSE,
              !.previewImageDataUrl = NoImage]

\* stopCapture()
stopCapture(s) ==
    LET s1 == IF s.currentStream # NoStream
              THEN [s EXCEPT !.liveStreams = @ \ {s.currentStream},
                             !.currentStream = NoStream]
              ELSE s
    IN [s1 EXCEPT !.isCapturing = FALSE, !.previewImageDataUrl = NoImage]

\* resetState() leaving the interval timer alone
resetStateKeepsTimer(s) ==
    [stopCapture(s) EXCEPT
        !.settings = DefaultSettings,
        !.lastAnalysisResult = NoResult,
        !.analysisError = NoError,
        !.previewImageDataUrl = NoImage]

\* resetState()
resetState(s) ==
    [stopCapture(stopContinuousCapture(s)) EXCEPT
        !.settings = DefaultSettings,
        !.lastAnalysisResult = NoResult,
        !.analysisError = NoError,
        !.previewImageDataUrl = NoImage]

\* executeVisionAction answers the chat with one of its five messages.
executeVisionActionReturn(s, message) ==
    Return(s, "chat", "executeVisionAction", message = "description", message)

\* executeVisionAction answering without stopping the capture it started
executeVisionActionAnalyzedKeepsStream(s, result) ==
    IF s.analysisError # NoError
    THEN executeVisionActionReturn(s, "analysis failed")
    ELSE IF result = NoResult \/ result.description = ""
    THEN executeVisionActionReturn(s, "no result")
    ELSE executeVisionActionReturn(s, "description")

\* executeVisionAction once its captureAndAnalyze() call has returned: it
\* stops the capture, then picks its answer from the store's analysisError
\* and from the result of the call.
executeVisionActionAnalyzed(s, result) ==
    LET s1 == Return(stopCapture(s), "executeVisionAction", "stopCapture", TRUE, "")
    IN IF s1.analysisError # NoError
       THEN executeVisionActionReturn(s1, "analysis failed")
       ELSE IF result = NoResult \/ result.description = ""
       THEN executeVisionActionReturn(s1, "no result")
       ELSE executeVisionActionReturn(s1, "description")

\* captureAndAnalyze() returns: the settings page drops the result, the
\* vision tool goes on with it.
captureAndAnalyzeReturn(s, f, ok, exit) ==
    LET s1 == Return(s, f.caller, "captureAndAnalyze", ok, exit)
    IN IF f.caller = "executeVisionAction"
       THEN executeVisionActionAnalyzed(s1, IF ok THEN s1.lastAnalysisResult
                                            ELSE NoResult)
       ELSE s1

\* analyzeImage() returns; captureAndAnalyze(), when it made the call, returns
\* the same value.
analyzeImageReturn(s, f, ok, exit) ==
    LET s1 == Return(s, f.caller, "analyzeImage", ok, exit)
    IN IF f.op = "captureAndAnalyze"
       THEN captureAndAnalyzeReturn(s1, f, ok, "analyzed")
       ELSE s1

\* analyzeImage() raising isAnalyzing before its configuration check
analyzeImageCallFlagFirst(s, f) ==
    IF ~configured(s)
    THEN analyzeImageReturn(
            [s EXCEPT !.isAnalyzing = TRUE,
                      !.analysisError =
                          <<"Vision provider and model must be configured">>],
            f, FALSE, "unconfigured")
    ELSE Suspend([s EXCEPT !.isAnalyzing = TRUE, !.analysisError = NoError],
                 [f EXCEPT !.pc = "getProviderInstance"])

\* analyzeImage(imageDataUrl, prompt) up to its first await
analyzeImageCall(s, f) ==
    IF ~configured(s)
    THEN analyzeImageReturn(
            [s EXCEPT !.analysisError =
                <<"Vision provider and model must be configured">>], f, FALSE,
            "unconfigured")
    ELSE Suspend([s EXCEPT !.isAnalyzing = TRUE, !.analysisError = NoError],
                 [f EXCEPT !.pc = "getProviderInstance"])

\* analyzeImage clearing the last result when its request fails
analyzeImageFailedClearing(s, f, msg) ==
    analyzeImageReturn(
        [s EXCEPT !.analysisError = <<"Analysis failed: ">> \o msg,
                  !.lastAnalysisResult = NoResult,
                  !.isAnalyzing = FALSE], f, FALSE, "catch")

\* analyzeImage failing without its finally block
analyzeImageFailedNoFinally(s, f, msg) ==
    analyzeImageReturn(
        [s EXCEPT !.analysisError = <<"Analysis failed: ">> \o msg], f, FALSE, "catch")

\* analyzeImage: the catch and finally blocks
analyzeImageFailed(s, f, msg) ==
    analyzeImageReturn(
        [s EXCEPT !.analysisError = <<"Analysis failed: ">> \o msg,
                  !.isAnalyzing = FALSE], f, FALSE, "catch")

\* analyzeImage resumes with the provider instance, or without one
analyzeImageProvider(s, f, outcome) ==
    CASE outcome = "provider" ->
            Suspend([s EXCEPT !.timerRequests =
                        IF f.caller = "tick" THEN @ + 1 ELSE @],
                    [f EXCEPT !.pc = "generateText"])
      [] outcome = "none" ->
            analyzeImageFailed(s, f, <<"Failed to get provider instance">>)
      [] OTHER -> analyzeImageFailed(s, f, <<"provider error">>)

\* analyzeImage returning the result without recording it
analyzeImageResponseUnrecorded(s, f, text) ==
    analyzeImageReturn([s EXCEPT !.clock = @ + 1, !.isAnalyzing = FALSE], f, TRUE,
                       "result")

\* analyzeImage resumes with the provider's response: the result and finally
analyzeImageResponse(s, f, text) ==
    LET result == [timestamp |-> s.clock + 1,
                   description |-> IF text = "undefined" THEN "" ELSE text]
    IN analyzeImageReturn(
          [s EXCEPT !.lastAnalysisResult = result,
                    !.clock = @ + 1,
                    !.isAnalyzing = FALSE], f, TRUE, "result")

\* captureAndAnalyze() passing whatever captureFrame() returned to analyzeImage()
captureFrameReturnUnchecked(s, f, image, exit) ==
    LET s1 == Return(s, f.caller, "captureFrame", image # NoImage, exit)
    IN IF f.op = "captureAndAnalyze"
       THEN analyzeImageCall(s1, [f EXCEPT !.img = image])
       ELSE s1

\* captureFrame() returns; captureAndAnalyze(), when it made the call, goes
\* on to analyzeImage() or returns empty.
captureFrameReturn(s, f, image, exit) ==
    LET s1 == Return(s, f.caller, "captureFrame", image # NoImage, exit)
    IN IF f.op = "captureAndAnalyze"
       THEN IF image = NoImage
            THEN captureAndAnalyzeReturn(s1, f, FALSE, "no frame")
            ELSE analyzeImageCall(s1, [f EXCEPT !.img = image])
       ELSE s1

\* captureFrame() returning empty for want of a stream without a message
captureFrameCallSilent(s, f) ==
    IF s.currentStream = NoStream
    THEN captureFrameReturn(s, f, NoImage, "no stream")
    ELSE Suspend(s, [f EXCEPT !.pc = "play", !.img = s.currentStream])

\* captureFrame(options) up to its first await (video.play())
captureFrameCall(s, f) ==
    IF s.currentStream = NoStream
    THEN captureFrameReturn(
            [s EXCEPT !.analysisError =
                <<"No capture stream available. Start capture first.">>],
            f, NoImage, "no stream")
    ELSE Suspend(s, [f EXCEPT !.pc = "play", !.img = s.currentStream])

\* captureFrame clearing the preview when it fails
captureFrameFailedClearing(s, f, msg) ==
    captureFrameReturn(
        [s EXCEPT !.analysisError = <<"Failed to capture frame: ">> \o msg,
                  !.previewImageDataUrl = NoImage],
        f, NoImage, "catch")

\* captureFrame without its catch block: the failure ends the call
captureFrameFailedUncaught(s, f, msg) == s

\* captureFrame: the catch block
captureFrameFailed(s, f, msg) ==
    captureFrameReturn(
        [s EXCEPT !.analysisError = <<"Failed to capture frame: ">> \o msg],
        f, NoImage, "catch")

\* { ...DEFAULT_CAPTURE_OPTIONS, ...options }
Options(options) ==
    [k \in DOMAIN DEFAULT_CAPTURE_OPTIONS |->
        IF options[k] = Absent THEN DEFAULT_CAPTURE_OPTIONS[k] ELSE options[k]]

\* Math.round(a / b) for a >= 0 and b > 0
Round(a, b) == (2 * a + b) \div (2 * b)

\* captureFrame: the scaled dimensions, width first and then height
ScaledSize(videoWidth, videoHeight, maxWidth, maxHeight) ==
    LET first == IF videoWidth > maxWidth
                 THEN [width |-> maxWidth,
                       height |-> Round(videoHeight * maxWidth, videoWidth)]
                 ELSE [width |-> videoWidth, height |-> videoHeight]
    IN IF first.height > maxHeight
       THEN [width |-> Round(first.width * maxHeight, first.height),
             height |-> maxHeight]
       ELSE first

\* captureFrame once the video has data: canvas, encoding, preview
captureFrameDraw(s, f, context) ==
    LET opts == Options(f.opts)
        size == ScaledSize(video.width, video.height, opts.maxWidth, opts.maxHeight)
        quality == IF opts.quality = Absent
                   THEN s.settings.compressionQuality ELSE opts.quality
    IN IF ~context
       THEN captureFrameFailed(s, f, <<"Failed to get canvas context">>)
       ELSE captureFrameReturn(
               [s EXCEPT !.previewImageDataUrl = f.img,
                         !.canvas = [options |-> f.opts, width |-> size.width,
                                     height |-> size.height, quality |-> quality]],
               f, f.img, "frame")

\* captureAndAnalyze(prompt)
captureAndAnalyzeCall(s, caller) ==
    captureFrameCall(s, Frame(caller, "captureAndAnalyze", "", "", NoSourceId, NoImage))

RECURSIVE startCaptureCall(_, _)

\* executeVisionAction falling back to the camera whatever the source was
executeVisionActionStartedAnySource(s, f, success) ==
    IF success
    THEN captureAndAnalyzeCall(s, "executeVisionAction")
    ELSE IF f.caller = "executeVisionAction"
    THEN startCaptureCall([s EXCEPT !.settings.captureSource = "camera"],
                          "executeVisionAction fallback")
    ELSE executeVisionActionReturn(s, "failed to start")

\* executeVisionAction once a startCapture() call of its has returned: the
\* first call falls back to the camera when it failed for another source,
\* a failure that is left ends the tool, a success goes on to the frame.
executeVisionActionStarted(s, f, success) ==
    IF success
    THEN captureAndAnalyzeCall(s, "executeVisionAction")
    ELSE IF f.caller = "executeVisionAction" /\ s.settings.captureSource # "camera"
    THEN startCaptureCall([s EXCEPT !.settings.captureSource = "camera"],
                          "executeVisionAction fallback")
    ELSE executeVisionActionReturn(s, "failed to start")

\* The callers of startCapture() go on when it returns: handleStartCapture
\* starts the timer, handleTestVision captures a frame, the vision tool
\* goes on as above.
startCaptureReturn(s, f, ok) ==
    LET s1 == Return(s, f.caller, "startCapture", ok, "")
    IN CASE f.caller = "handleStartCapture" ->
              IF ok /\ s1.settings.analysisMode = "continuous"
              THEN startContinuousCapture(s1)
              ELSE s1
         [] f.caller = "handleTestVision" ->
              IF ~ok THEN s1 ELSE captureAndAnalyzeCall(s1, f.caller)
         [] f.caller \in {"executeVisionAction", "executeVisionAction fallback"} ->
              executeVisionActionStarted(s1, f, ok)
         [] OTHER -> s1

\* startCapture returning false without a message
startCaptureFailedSilently(s, f, msg) == startCaptureReturn(s, f, FALSE)

\* startCapture: a failure path sets the message and returns false
startCaptureFailed(s, f, msg) ==
    startCaptureReturn([s EXCEPT !.analysisError = msg], f, FALSE)

\* startCapture: the device request of the branch taken
startCaptureRequest(s, f, branch) ==
    IF mediaDevices
    THEN Suspend(s, [f EXCEPT !.pc = "device", !.branch = branch,
                              !.sid = IF branch = "electron"
                                      THEN s.settings.selectedDesktopSourceId
                                      ELSE NoSourceId])
    ELSE startCaptureFailed(s, f,
            CASE branch = "electron" ->
                    <<"Screen capture failed: ", "TypeError",
                      ". Try selecting a different source.">>
              [] branch = "display" ->
                    <<"Screen capture is not supported in this browser.">>
              [] OTHER ->
                    <<"Camera access is not supported in this environment.">>)

\* fetchDesktopSources() up to its await of the directory request
fetchDesktopSourcesCall(s, f) ==
    IF ~isElectron
    THEN Return(s, f.caller, "fetchDesktopSources", TRUE, "not electron")
    ELSE Suspend([s EXCEPT !.isLoadingDesktopSources = TRUE], [f EXCEPT !.pc = "ipc"])

SourceType(id) == IF id[1] = "screen:" THEN "screen" ELSE "window"

\* fetchDesktopSources keeping the list it had when the request fails
fetchDesktopSourcesResponseStale(s, f, ok, sources) ==
    Return([s EXCEPT !.availableDesktopSources =
                        IF ok
                        THEN [i \in 1..Len(sources) |->
                                [id |-> sources[i], type |-> SourceType(sources[i])]]
                        ELSE @,
                     !.isLoadingDesktopSources = FALSE],
           f.caller, "fetchDesktopSources", ok, "finally")

\* fetchDesktopSources selecting the first source of the list it fetched
fetchDesktopSourcesResponseSelecting(s, f, ok, sources) ==
    Return([s EXCEPT !.availableDesktopSources =
                        IF ok
                        THEN [i \in 1..Len(sources) |->
                                [id |-> sources[i], type |-> SourceType(sources[i])]]
                        ELSE <<>>,
                     !.isLoadingDesktopSources = FALSE,
                     !.settings.selectedDesktopSourceId =
                        IF ok /\ sources # <<>> THEN sources[1] ELSE @],
           f.caller, "fetchDesktopSources", ok, "finally")

\* fetchDesktopSources resumes with the directory's answer, or its failure
fetchDesktopSourcesResponse(s, f, ok, sources) ==
    Return([s EXCEPT !.availableDesktopSources =
                        IF ok
                        THEN [i \in 1..Len(sources) |->
                                [id |-> sources[i], type |-> SourceType(sources[i])]]
                        ELSE <<>>,
                     !.isLoadingDesktopSources = FALSE],
           f.caller, "fetchDesktopSources", ok, "finally")

\* the first entry of the list taken whatever its type
DefaultSourceFirst(list, sourceType) == list[1]

\* find(s => s.type === sourceType) || availableDesktopSources[0]
DefaultSource(list, sourceType) ==
    IF \E i \in 1..Len(list) : list[i].type = sourceType
    THEN list[CHOOSE i \in 1..Len(list) :
                /\ list[i].type = sourceType
                /\ \A j \in 1..(i - 1) : list[j].type # sourceType]
    ELSE list[1]

\* startCapture going on to the device request whatever the directory holds
startCaptureSourcesUnchecked(s, f) ==
    IF Len(s.availableDesktopSources) = 0
    THEN startCaptureRequest(s, f, "electron")
    ELSE LET sourceType == IF s.settings.captureSource = "screen"
                           THEN "screen" ELSE "window"
             defaultSource == DefaultSource(s.availableDesktopSources, sourceType)
         IN startCaptureRequest(
                [s EXCEPT !.settings.selectedDesktopSourceId = defaultSource.id],
                f, "electron")

\* startCapture after its await of fetchDesktopSources()
startCaptureSources(s, f) ==
    IF Len(s.availableDesktopSources) = 0
    THEN startCaptureFailed(s, f, <<"No screen or window sources available.">>)
    ELSE LET sourceType == IF s.settings.captureSource = "screen"
                           THEN "screen" ELSE "window"
             defaultSource == DefaultSource(s.availableDesktopSources, sourceType)
         IN startCaptureRequest(
                [s EXCEPT !.settings.selectedDesktopSourceId = defaultSource.id],
                f, "electron")

\* startCapture() keeping the error of an earlier attempt
startCaptureCallKeepsError(s0, caller) ==
    LET s == stopCapture(s0)
        f == Frame(caller, "startCapture", "", "", NoSourceId, NoImage)
    IN IF s.settings.captureSource \in {"screen", "window"}
       THEN IF isElectron
            THEN IF s.settings.selectedDesktopSourceId = NoSourceId
                 THEN fetchDesktopSourcesCall(s, f)
                 ELSE startCaptureRequest(s, f, "electron")
            ELSE startCaptureRequest(s, f, "display")
       ELSE startCaptureRequest(s, f, "camera")

\* startCapture() up to its first await
startCaptureCall(s0, caller) ==
    LET s == [stopCapture(s0) EXCEPT !.analysisError = NoError]
        f == Frame(caller, "startCapture", "", "", NoSourceId, NoImage)
    IN IF s.settings.captureSource \in {"screen", "window"}
       THEN IF isElectron
            THEN IF s.settings.selectedDesktopSourceId = NoSourceId
                 THEN fetchDesktopSourcesCall(s, f)
                 ELSE startCaptureRequest(s, f, "electron")
            ELSE startCaptureRequest(s, f, "display")
       ELSE startCaptureRequest(s, f, "camera")

\* startCapture: the catch block of the branch whose request failed
DeviceErrorMessage(branch, msg) ==
    CASE branch = "electron" ->
            <<"Screen capture failed: ">> \o msg
                \o <<". Try selecting a different source.">>
      [] branch = "display" ->
            IF Includes(msg, "NotAllowedError") \/ Includes(msg, "Permission denied")
            THEN <<"Screen capture was denied. Please allow screen sharing permissions.">>
            ELSE <<"Screen capture failed: ">> \o msg
      [] OTHER ->
            IF Includes(msg, "NotAllowedError") \/ Includes(msg, "Permission denied")
            THEN <<"Camera access was denied. Please allow camera permissions and try again.">>
            ELSE IF Includes(msg, "NotFoundError")
                 THEN <<"No camera found. Please connect a camera and try again.">>
                 ELSE <<"Camera capture failed: ">> \o msg

\* startCapture holding the stream without raising isCapturing
startCaptureStreamNoFlag(s, f) ==
    LET stream == s.acquired + 1
    IN startCaptureReturn([s EXCEPT !.acquired = stream,
                                    !.liveStreams = @ \cup {stream},
                                    !.currentStream = stream], f, TRUE)

\* startCapture resumes with the stream of its device request
startCaptureStream(s, f) ==
    LET stream == s.acquired + 1
        s1 == [s EXCEPT !.acquired = stream,
                        !.liveStreams = @ \cup {stream},
                        !.currentStream = stream]
    IN startCaptureReturn([s1 EXCEPT !.isCapturing = TRUE], f, TRUE)

\* The vision tool's input: the action, the source (empty when not given)
\* and the query (empty when not given).
VisionActionInputs ==
    [action : {"capture", "describe"},
     source : {"", "screen", "window", "camera"},
     query : {"", "What is on the screen?"}]

\* executeVisionAction is called: the call and the source it names
\* (empty when none is given) are recorded with the events of the step.
executeVisionActionCalled(s, input) ==
    Return(s, "chat", "executeVisionAction(input)", TRUE, input.source)

\* executeVisionAction going on without its configuration check
executeVisionActionUnchecked(s0, input) ==
    LET s == executeVisionActionCalled(s0, input)
        s1 == IF s.isCapturing
              THEN Return(stopCapture(s), "executeVisionAction",
                          "stopCapture", TRUE, "")
              ELSE s
        s2 == IF input.source # ""
              THEN [s1 EXCEPT !.settings.captureSource = input.source]
              ELSE s1
    IN startCaptureCall(s2, "executeVisionAction")

\* executeVisionAction(input) up to its first await
executeVisionAction(s0, input) ==
    LET s == executeVisionActionCalled(s0, input)
    IN
    IF ~configured(s)
    THEN executeVisionActionReturn(s, "not configured")
    ELSE LET s1 == IF s.isCapturing
                   THEN Return(stopCapture(s), "executeVisionAction",
                               "stopCapture", TRUE, "")
                   ELSE s
             s2 == IF input.source # ""
                   THEN [s1 EXCEPT !.settings.captureSource = input.source]
                   ELSE s1
         IN startCaptureCall(s2, "executeVisionAction")
\* ------------------------------------------------------------------ actions

Room == BagCardinality(calls) < MaxCalls
Api(op) == Frame("api", op, "", "", NoSourceId, NoImage)
Done(s, op) == Return(s, "api", op, TRUE, "")

\* A direct call of a public operation of the store.
StartCapture == Room /\ Install(startCaptureCall(State, "api"))
StopCapture == Install(Done(stopCapture(State), "stopCapture"))
ResetState == Install(Done(resetState(State), "resetState"))
CaptureFrame == Room /\ Install(captureFrameCall(State, Api("captureFrame")))
\* captureFrame(options) with per-call options, each property given or not
CaptureOptions ==
    [maxWidth : 1..MaxSide, maxHeight : 1..MaxSide, quality : {Absent}]
        \cup [maxWidth : {Absent, 4}, maxHeight : {Absent, 2}, quality : {Absent, 50}]
CaptureFrameOptions ==
    /\ Room
    /\ \E options \in CaptureOptions \ {NoOptions} :
          Install(captureFrameCall(State, [Api("captureFrame") EXCEPT !.opts = options]))
CaptureAndAnalyze == Room /\ Install(captureAndAnalyzeCall(State, "api"))
AnalyzeImage ==
    /\ Room
    /\ \E image \in 1..MaxStreams :
          Install(analyzeImageCall(State, [Api("analyzeImage") EXCEPT !.img = image]))
StartContinuousCapture ==
    Install(Done(startContinuousCapture(State), "startContinuousCapture"))
StopContinuousCapture ==
    Install(Done(stopContinuousCapture(State), "stopContinuousCapture"))
FetchDesktopSources ==
    Room /\ Install(fetchDesktopSourcesCall(State, Api("fetchDesktopSources")))

\* The settings page: the handlers of its buttons, enabled as the template
\* shows the buttons, and its watcher of the analysis mode.
handleStopCapture(s) ==
    Return(stopCapture(stopContinuousCapture(s)), "page", "handleStopCapture", TRUE, "")

handleTestVision(s) ==
    IF ~s.isCapturing
    THEN startCaptureCall(s, "handleTestVision")
    ELSE captureAndAnalyzeCall(s, "handleTestVision")

watchAnalysisMode(s, newMode) ==
    IF newMode = "continuous" /\ s.isCapturing
    THEN startContinuousCapture(s)
    ELSE stopContinuousCapture(s)

HandleStartCapture ==
    /\ configured(State) /\ ~isCapturing /\ Room
    /\ Install(startCaptureCall(State, "handleStartCapture"))
HandleStopCapture ==
    /\ configured(State) /\ isCapturing
    /\ Install(handleStopCapture(State))
HandleCaptureAndAnalyze ==
    /\ configured(State) /\ isCapturing /\ ~isAnalyzing /\ Room
    /\ settings.analysisMode = "on-demand"
    /\ Install(captureAndAnalyzeCall(State, "handleCaptureAndAnalyze"))
HandleTestVision ==
    /\ configured(State) /\ ~isCapturing /\ ~isAnalyzing /\ Room
    /\ Install(handleTestVision(State))
ChangeAnalysisMode ==
    /\ configured(State)
    /\ \E newMode \in {"on-demand", "continuous"} \ {settings.analysisMode} :
          Install(watchAnalysisMode(
              [State EXCEPT !.settings.analysisMode = newMode], newMode))

\* The page's watcher of the capture source, run with the new source
watchCaptureSource(s, newSource) ==
    IF isElectron /\ newSource \in {"screen", "window"}
    THEN fetchDesktopSourcesCall(
            s, Frame("watchCaptureSource", "fetchDesktopSources", "", "",
                     NoSourceId, NoImage))
    ELSE s

\* The handler of the page's refresh control
loadDesktopSources(s) ==
    IF isElectron /\ s.settings.captureSource \in {"screen", "window"}
    THEN fetchDesktopSourcesCall(
            s, Frame("loadDesktopSources", "fetchDesktopSources", "", "",
                     NoSourceId, NoImage))
    ELSE s

\* The user picks another capture source in the page's select.
ChangeCaptureSource ==
    /\ Room
    /\ \E newSource \in {"screen", "window", "camera"} \ {settings.captureSource} :
          Install(watchCaptureSource(
              [State EXCEPT !.settings.captureSource = newSource], newSource))
\* The refresh control, shown with the desktop sources and disabled while
\* they load.
LoadDesktopSources ==
    /\ Room
    /\ isElectron /\ settings.captureSource \in {"screen", "window"}
    /\ ~isLoadingDesktopSources
    /\ Install(loadDesktopSources(State))

\* The page is left and opened again: onUnmounted runs, and on the new
\* mount the watcher of the capture source runs at once (immediate).
onUnmounted(s) ==
    Return(stopContinuousCapture(s), "page", "onUnmounted", TRUE, "")
Remount ==
    /\ Room
    /\ Install(watchCaptureSource(onUnmounted(State), settings.captureSource))

\* The model calls the vision tool in a chat.
ExecuteVisionAction ==
    /\ Room
    /\ \E input \in VisionActionInputs : Install(executeVisionAction(State, input))

\* The persisted settings are refs the store exports: analysisMode and
\* captureIntervalMs written directly, no watcher of the page running.
SetAnalysisMode ==
    \E newMode \in {"on-demand", "continuous"} \ {settings.analysisMode} :
        Install([State EXCEPT !.settings.analysisMode = newMode])
CaptureIntervals == {2000, 5000}
SetCaptureInterval ==
    \E interval \in CaptureIntervals \ {settings.captureIntervalMs} :
        Install([State EXCEPT !.settings.captureIntervalMs = interval])

\* The callback of the interval timer, counting the ticks that pass its guard
tickUnguarded(s) ==
    captureAndAnalyzeCall(
        [s EXCEPT !.ticksPassed = IF ~s.isAnalyzing /\ s.isCapturing
                                  THEN @ + 1 ELSE @], "tick")

tick(s) ==
    IF ~s.isAnalyzing /\ s.isCapturing
    THEN captureAndAnalyzeCall([s EXCEPT !.ticksPassed = @ + 1], "tick")
    ELSE Return(s, "tick", "tick", FALSE, "dropped")

\* A live interval timer fires.
Tick ==
    /\ timers # {}
    /\ LET s == tick(State)
       IN /\ BagCardinality(s.calls) <= MaxCalls
          /\ s.ticksPassed <= MaxTicks
          /\ Install(s)

\* The directory request (electron.screen.getDesktopSources) completes.
DirectoryResponse ==
    \E f \in At("ipc"), ok \in BOOLEAN, sources \in Directories :
        /\ ~ok => sources = <<>>
        /\ LET s == fetchDesktopSourcesResponse(Resume(State, f), f, ok, sources)
           IN Install(IF f.op = "startCapture" THEN startCaptureSources(s, f) ELSE s)

\* The device request of a branch of startCapture.
DeviceRequest(branch) ==
    IF branch = "display" THEN "getDisplayMedia" ELSE "getUserMedia"

\* A device request completes: with a stream, or rejected with a failure,
\* whose name the step records.
DeviceResponse ==
    \E f \in At("device") :
        \/ /\ acquired < MaxStreams
           /\ Install(startCaptureStream(Resume(State, f), f))
        \/ \E e \in DeviceErrors :
              Install(startCaptureFailed(
                  Return(Resume(State, f), f.caller, DeviceRequest(f.branch),
                         FALSE, e.name),
                  f, DeviceErrorMessage(f.branch, e.message)))

\* video.play() settles: with data to draw, without data yet, or rejected.
PlayResponse ==
    \E f \in At("play") :
        \/ \E context \in BOOLEAN :
              Install(captureFrameDraw(Resume(State, f), f, context))
        \/ Install(Suspend(Resume(State, f), [f EXCEPT !.pc = "loadeddata"]))
        \/ Install(captureFrameFailed(Resume(State, f), f, <<"play() failed">>))

\* The video element's loadeddata event.
LoadedData ==
    \E f \in At("loadeddata"), context \in BOOLEAN :
        Install(captureFrameDraw(Resume(State, f), f, context))

\* providersStore.getProviderInstance() settles.
ProviderInstanceResponse ==
    \E f \in At("getProviderInstance"), outcome \in {"provider", "none", "error"} :
        Install(analyzeImageProvider(Resume(State, f), f, outcome))

\* generateText() settles: a response, or a failure.
GenerateTextResponse ==
    \E f \in At("generateText") :
        \/ /\ clock < MaxResults
           /\ \E text \in ResponseTexts :
                 Install(analyzeImageResponse(Resume(State, f), f, text))
        \/ Install(analyzeImageFailed(Resume(State, f), f, <<"request failed">>))

\* ---------------------------------------------------------- specifications

\* The state after the store is constructed, for a given environment and
\* given persisted settings (read back from local storage).
Constructed(electron, media, size, persisted) ==
    /\ isElectron = electron
    /\ mediaDevices = media
    /\ video = size
    /\ settings = persisted
    /\ isCapturing = FALSE
    /\ isAnalyzing = FALSE
    /\ lastAnalysisResult = NoResult
    /\ analysisError = NoError
    /\ currentStream = NoStream
    /\ previewImageDataUrl = NoImage
    /\ availableDesktopSources = <<>>
    /\ isLoadingDesktopSources = FALSE
    /\ captureIntervalId = NoTimer
    /\ timers = {}
    /\ liveStreams = {}
    /\ acquired = 0
    /\ calls = EmptyBag
    /\ clock = 0
    /\ ticksPassed = 0
    /\ timerRequests = 0
    /\ canvas = NoCanvas
    /\ ev = <<>>

Start(electron, media, provider, source, mode, sid) ==
    Constructed(electron, media, DefaultVideo,
                [DefaultSettings EXCEPT
                    !.activeVisionProvider = provider,
                    !.activeVisionModel = IF provider = "" THEN "" ELSE "gpt-4o",
                    !.captureSource = source,
                    !.analysisMode = mode,
                    !.selectedDesktopSourceId = sid])

\* Stream lifecycle: the operations that acquire and release the stream, in
\* any interleaving, in both environments and for every capture source.
InitStream ==
    \E electron \in BOOLEAN, media \in BOOLEAN,
       source \in {"screen", "window", "camera"}, sid \in {NoSourceId, WindowId} :
        /\ ~electron => sid = NoSourceId
        /\ Start(electron, media, "", source, "on-demand", sid)

NextStream ==
    \/ StartCapture
    \/ StopCapture
    \/ ResetState
    \/ FetchDesktopSources
    \/ DirectoryResponse
    \/ DeviceResponse

SpecStream == InitStream /\ [][NextStream]_vars
\* One operation at a time: a call is made only when no call is suspended,
\* so nothing interleaves with it.
Idle == calls = EmptyBag

InitSeq ==
    \E electron \in BOOLEAN, media \in BOOLEAN, provider \in {"", "openai"},
       model \in {"", "gpt-4o"},
       source \in {"screen", "window", "camera"}, sid \in {NoSourceId, WindowId} :
        /\ ~electron => sid = NoSourceId
        /\ provider = "" => model = ""
        /\ Constructed(electron, media, DefaultVideo,
                       [DefaultSettings EXCEPT
                           !.activeVisionProvider = provider,
                           !.activeVisionModel = model,
                           !.captureSource = source,
                           !.selectedDesktopSourceId = sid])

NextSeq ==
    \/ Idle /\ StartCapture
    \/ Idle /\ StopCapture
    \/ Idle /\ ResetState
    \/ Idle /\ CaptureFrame
    \/ Idle /\ CaptureAndAnalyze
    \/ Idle /\ AnalyzeImage
    \/ Idle /\ FetchDesktopSources
    \/ DirectoryResponse
    \/ DeviceResponse
    \/ PlayResponse
    \/ LoadedData
    \/ ProviderInstanceResponse
    \/ GenerateTextResponse

SpecSeq == InitSeq /\ [][NextSeq]_vars
\* Continuous capture: the timer is the only caller of captureAndAnalyze.
InitTimer ==
    \E provider \in {"", "openai"} :
        Start(FALSE, TRUE, provider, "camera", "continuous", NoSourceId)

NextTimer ==
    \/ HandleStartCapture
    \/ HandleStopCapture
    \/ ChangeAnalysisMode
    \/ StartCapture
    \/ StopCapture
    \/ StartContinuousCapture
    \/ StopContinuousCapture
    \/ Tick
    \/ DeviceResponse
    \/ PlayResponse
    \/ LoadedData
    \/ ProviderInstanceResponse
    \/ GenerateTextResponse

SpecTimer == InitTimer /\ [][NextTimer]_vars

\* The timer's ticks against the capture and the analysis they guard on:
\* the page starts and stops continuous capture, stopCapture() alone leaves
\* the timer running.
InitTicks == Start(FALSE, TRUE, "openai", "camera", "continuous", NoSourceId)

NextTicks ==
    \/ HandleStartCapture
    \/ HandleStopCapture
    \/ StopCapture
    \/ Tick
    \/ DeviceResponse
    \/ PlayResponse
    \/ LoadedData
    \/ ProviderInstanceResponse
    \/ GenerateTextResponse

SpecTicks == InitTicks /\ [][NextTicks]_vars

\* Manual capture and analysis: the operations the page's buttons and other
\* callers invoke, in any interleaving.
InitManual ==
    \E provider \in {"", "openai"} :
        Start(FALSE, TRUE, provider, "camera", "on-demand", NoSourceId)

NextManual ==
    \/ StartCapture
    \/ StopCapture
    \/ ResetState
    \/ CaptureFrame
    \/ CaptureAndAnalyze
    \/ AnalyzeImage
    \/ HandleCaptureAndAnalyze
    \/ HandleTestVision
    \/ DeviceResponse
    \/ PlayResponse
    \/ LoadedData
    \/ ProviderInstanceResponse
    \/ GenerateTextResponse

SpecManual == InitManual /\ [][NextManual]_vars

\* Analysis requests whose provider always answers: every suspended
\* analyzeImage call is resumed, with a response or with a failure.
InitAnalyze ==
    \E provider \in {"", "openai"} :
        Start(FALSE, TRUE, provider, "camera", "on-demand", NoSourceId)

ChooseProvider ==
    \E provider \in {"", "openai"} \ {settings.activeVisionProvider} :
        /\ settings' = [settings EXCEPT
                          !.activeVisionProvider = provider,
                          !.activeVisionModel = IF provider = "" THEN "" ELSE "gpt-4o"]
        /\ ev' = <<>>
        /\ canvas' = NoCanvas
        /\ UNCHANGED <<isElectron, mediaDevices, video, isCapturing, isAnalyzing,
                       lastAnalysisResult, analysisError, currentStream,
                       previewImageDataUrl, availableDesktopSources,
                       isLoadingDesktopSources, captureIntervalId, timers,
                       liveStreams, acquired, calls, clock, ticksPassed,
                       timerRequests>>

NextAnalyze ==
    \/ AnalyzeImage
    \/ ChooseProvider
    \/ ResetState
    \/ ProviderInstanceResponse
    \/ GenerateTextResponse

SpecAnalyze ==
    /\ InitAnalyze
    /\ [][NextAnalyze]_vars
    /\ WF_vars(ProviderInstanceResponse)
    /\ WF_vars(GenerateTextResponse)

\* The continuous-capture timer under every sequence of the operations that
\* schedule and cancel it, of changes of the analysis mode with the page's
\* watcher and without it, and of changes of the interval.
InitContinuous ==
    \E mode \in {"on-demand", "continuous"} :
        Start(FALSE, TRUE, "openai", "camera", mode, NoSourceId)

NextContinuous ==
    \/ StartContinuousCapture
    \/ StopContinuousCapture
    \/ ResetState
    \/ SetAnalysisMode
    \/ ChangeAnalysisMode
    \/ SetCaptureInterval
    \/ HandleStartCapture
    \/ HandleStopCapture
    \/ DeviceResponse

SpecContinuous == InitContinuous /\ [][NextContinuous]_vars

\* Frames and their encoding: sources of every small size, persisted image
\* settings at their defaults or changed, frames captured with and without
\* per-call options, one capture at a time.
InitFrame ==
    \E width \in 1..MaxSide, height \in 1..MaxSide,
       persisted \in {DEFAULT_CAPTURE_OPTIONS,
                      [maxWidth |-> 4, maxHeight |-> 2, quality |-> 30]} :
        Constructed(FALSE, TRUE, [width |-> width, height |-> height],
                    [DefaultSettings EXCEPT
                        !.captureSource = "camera",
                        !.maxImageWidth = persisted.maxWidth,
                        !.maxImageHeight = persisted.maxHeight,
                        !.compressionQuality = persisted.quality])

NextFrame ==
    \/ Idle /\ StartCapture
    \/ Idle /\ CaptureFrame
    \/ Idle /\ CaptureFrameOptions
    \/ Idle /\ CaptureAndAnalyze
    \/ DeviceResponse
    \/ PlayResponse
    \/ LoadedData

SpecFrame == InitFrame /\ [][NextFrame]_vars

\* Reset in the middle of continuous capture: every persisted setting has
\* been changed from its default, the timer ticks, frames are captured and
\* analysed, and resetState() is called at any moment.
ChangedSettings ==
    [ activeVisionProvider    |-> "openai",
      activeVisionModel       |-> "gpt-4o",
      activeCustomModelName   |-> "my-model",
      captureSource           |-> "camera",
      analysisMode            |-> "continuous",
      captureIntervalMs       |-> 2000,
      compressionQuality      |-> 30,
      maxImageWidth           |-> 640,
      maxImageHeight          |-> 360,
      selectedDesktopSourceId |-> WindowId ]

InitReset == Constructed(TRUE, TRUE, DefaultVideo, ChangedSettings)

NextReset ==
    \/ HandleStartCapture
    \/ ResetState
    \/ Tick
    \/ DeviceResponse
    \/ PlayResponse
    \/ LoadedData
    \/ ProviderInstanceResponse
    \/ GenerateTextResponse

SpecReset == InitReset /\ [][NextReset]_vars

\* The persisted settings under every operation of the store: in both
\* environments and for every capture source, the asynchronous operations
\* one at a time, the synchronous ones at any moment; resetState brings the
\* unconfigured on-demand settings in.
InitSettings ==
    \E electron \in BOOLEAN, source \in {"screen", "window", "camera"},
       sid \in {NoSourceId, WindowId} :
        /\ ~electron => sid = NoSourceId
        /\ Start(electron, TRUE, "openai", source, "continuous", sid)

NextSettings ==
    \/ Idle /\ StartCapture
    \/ Idle /\ CaptureFrame
    \/ Idle /\ CaptureAndAnalyze
    \/ Idle /\ AnalyzeImage
    \/ Idle /\ FetchDesktopSources
    \/ StopCapture
    \/ StartContinuousCapture
    \/ StopContinuousCapture
    \/ ResetState
    \/ DirectoryResponse
    \/ DeviceResponse
    \/ PlayResponse
    \/ LoadedData
    \/ ProviderInstanceResponse
    \/ GenerateTextResponse

SpecSettings == InitSettings /\ [][NextSettings]_vars

\* The user clicks a source in the page's grid, which shows the sources of
\* the type of the capture source once they are loaded.
SelectDesktopSource ==
    /\ isElectron /\ settings.captureSource \in {"screen", "window"}
    /\ ~isLoadingDesktopSources
    /\ \E i \in 1..Len(availableDesktopSources) :
          /\ availableDesktopSources[i].type = settings.captureSource
          /\ availableDesktopSources[i].id # settings.selectedDesktopSourceId
          /\ Install([State EXCEPT !.settings.selectedDesktopSourceId =
                                      availableDesktopSources[i].id])

\* The desktop sources on the settings page: the user changes the capture
\* source, refreshes the sources, starts and stops capture, while directory
\* and device requests are outstanding.
InitSources ==
    \E electron \in BOOLEAN, source \in {"screen", "window", "camera"},
       sid \in {NoSourceId, WindowId} :
        /\ ~electron => sid = NoSourceId
        /\ Start(electron, TRUE, "openai", source, "on-demand", sid)

NextSources ==
    \/ ChangeCaptureSource
    \/ LoadDesktopSources
    \/ SelectDesktopSource
    \/ HandleStartCapture
    \/ HandleStopCapture
    \/ DirectoryResponse
    \/ DeviceResponse

SpecSources == InitSources /\ [][NextSources]_vars

\* Responses that come late: the page starts capture, the timer's ticks make
\* analysis requests, and stopCapture() is called at any moment, while
\* requests are outstanding.
InitLate == Start(FALSE, TRUE, "openai", "camera", "continuous", NoSourceId)

NextLate ==
    \/ HandleStartCapture
    \/ StopCapture
    \/ Tick
    \/ DeviceResponse
    \/ PlayResponse
    \/ LoadedData
    \/ ProviderInstanceResponse
    \/ GenerateTextResponse

SpecLate == InitLate /\ [][NextLate]_vars

\* A capture stopped for good: startCapture is called once, as the first
\* operation on the constructed store, and never again; stopCapture,
\* resetState and fetchDesktopSources are called at any moment after it,
\* while its directory or device request is outstanding or answered.
Fresh == ev = <<>> /\ calls = EmptyBag

InitStopped ==
    \E electron \in BOOLEAN, media \in BOOLEAN,
       source \in {"screen", "window", "camera"}, sid \in {NoSourceId, WindowId} :
        /\ ~electron => sid = NoSourceId
        /\ Start(electron, media, "", source, "on-demand", sid)

NextStopped ==
    \/ Fresh /\ StartCapture
    \/ ~Fresh /\ StopCapture
    \/ ~Fresh /\ ResetState
    \/ ~Fresh /\ FetchDesktopSources
    \/ DirectoryResponse
    \/ DeviceResponse

SpecStopped == InitStopped /\ [][NextStopped]_vars

\* The vision tool run to its end with nothing interleaved, configured or
\* not, in both environments and for every capture source, with or without a
\* capture started beforehand.
InitTool ==
    \E electron \in BOOLEAN, media \in BOOLEAN, provider \in {"", "openai"},
       source \in {"screen", "window", "camera"}, sid \in {NoSourceId, WindowId} :
        /\ ~electron => sid = NoSourceId
        /\ Start(electron, media, provider, source, "on-demand", sid)

NextTool ==
    \/ Idle /\ ExecuteVisionAction
    \/ Idle /\ StartCapture
    \/ DirectoryResponse
    \/ DeviceResponse
    \/ PlayResponse
    \/ LoadedData
    \/ ProviderInstanceResponse
    \/ GenerateTextResponse

SpecTool == InitTool /\ [][NextTool]_vars

\* The vision tool called while the settings page captures continuously:
\* the page's timer ticks during the tool's calls; the page's Start Capture
\* and the tool are each called when no call is suspended.
InitToolTimer == Start(FALSE, TRUE, "openai", "camera", "continuous", NoSourceId)

NextToolTimer ==
    \/ Idle /\ HandleStartCapture
    \/ Idle /\ ExecuteVisionAction
    \/ Tick
    \/ DeviceResponse
    \/ PlayResponse
    \/ LoadedData
    \/ ProviderInstanceResponse
    \/ GenerateTextResponse

SpecToolTimer == InitToolTimer /\ [][NextToolTimer]_vars

\* The settings page in use: Start Capture, Stop Capture, Quick Test and
\* changes of the analysis mode in any order, the page left and opened
\* again at any moment, the timer ticking, requests answered.
InitPage ==
    \E mode \in {"on-demand", "continuous"} :
        Start(FALSE, TRUE, "openai", "camera", mode, NoSourceId)

NextPage ==
    \/ HandleStartCapture
    \/ HandleStopCapture
    \/ HandleTestVision
    \/ ChangeAnalysisMode
    \/ Remount
    \/ Tick
    \/ DeviceResponse
    \/ PlayResponse
    \/ LoadedData
    \/ ProviderInstanceResponse
    \/ GenerateTextResponse

SpecPage == InitPage /\ [][NextPage]_vars

\* -------------------------------------------------------------- properties

\* Some operation op returned in the last step, with a result (ok) or with
\* its sentinel.
Returned(op, ok) == \E i \in 1..Len(ev) : ev[i].op = op /\ ev[i].ok = ok

\* C1: at most one acquired stream has tracks that were not stopped, and it
\* is the stream currentStream references, under any interleaving of
\* startCapture, stopCapture and resetState.
C1_OneLiveStream == liveStreams \subseteq {currentStream}

\* C2: when a startCapture that follows an earlier successful one returns
\* true, with nothing interleaved, the tracks of every earlier stream are
\* stopped and currentStream is the stream this call acquired.
C2_SecondStreamOnly ==
    Returned("startCapture", TRUE) =>
        /\ currentStream = acquired
        /\ liveStreams = {acquired}
C2_Witness ==
    /\ Returned("startCapture", TRUE)
    /\ acquired = 2
    /\ currentStream = 2

\* C3: wherever control can pass to another operation, isCapturing is true
\* exactly when currentStream is non-empty.
C3_CapturingIffStream == isCapturing <=> currentStream # NoStream
C3_Witness ==
    /\ isCapturing
    /\ currentStream = 2
    /\ At("device") # {}

\* Calls of analyzeImage past the configuration check that have not returned,
\* and those among them whose provider request is outstanding.
Analyzing == At("getProviderInstance") \cup At("generateText")
Requests == BagCardinality([f \in At("generateText") |-> calls[f]])

\* C4: in every reachable state where isCapturing is false,
\* previewImageDataUrl is empty.
C4_PreviewCleared == ~isCapturing => previewImageDataUrl = NoImage

\* C5: in every reachable state where isCapturing is false, no
\* continuous-capture timer is active.
C5_NoTimerUnlessCapturing == ~isCapturing => timers = {}

\* C6: when only the timer's ticks invoke captureAndAnalyze, at most one
\* provider request is outstanding at any time.
C6_SingleFlight == Requests <= 1

\* C7: isAnalyzing is true exactly when at least one analyzeImage call has
\* passed its configuration check and not yet returned.
C7_AnalyzingIffOutstanding == isAnalyzing <=> Analyzing # {}

\* C8: a tick that finds isAnalyzing true or isCapturing false captures no
\* frame, issues no request and leaves no call behind (it changes nothing,
\* so nothing is left to replay); a call of the timer starts capturing a
\* frame only in a step that found isAnalyzing false and isCapturing true;
\* and the provider requests started by the timer never outnumber the ticks
\* that found isAnalyzing false and isCapturing true.
DroppedTick == [caller |-> "tick", op |-> "tick", ok |-> FALSE, exit |-> "dropped"]
TickCaptures ==
    \E f \in BagToSet(calls') :
        /\ f.caller = "tick"
        /\ f.pc = "play"
        /\ CopiesIn(f, calls') > CopiesIn(f, calls)
C8_TicksDropped ==
    /\ [](timerRequests <= ticksPassed)
    /\ [][TickCaptures => ~isAnalyzing /\ isCapturing]_vars
    /\ [][ev' = <<DroppedTick>> =>
            /\ isAnalyzing \/ ~isCapturing
            /\ UNCHANGED <<settings, isCapturing, isAnalyzing, lastAnalysisResult,
                           analysisError, currentStream, previewImageDataUrl,
                           captureIntervalId, timers, liveStreams, acquired,
                           calls, clock, ticksPassed, timerRequests>>]_vars
C8_Witness ==
    /\ ev = <<DroppedTick>>
    /\ isAnalyzing
    /\ isCapturing
    /\ timerRequests >= 1

\* C9: when an analyzeImage call that passed its configuration check
\* returns, isAnalyzing is false; and, the provider always answering, every
\* state with isAnalyzing true is followed by one with isAnalyzing false.
AnalyzeReturned ==
    \E i \in 1..Len(ev) : ev[i].op = "analyzeImage" /\ ev[i].exit \in {"result", "catch"}
C9_AnalyzingReset ==
    /\ [](AnalyzeReturned => ~isAnalyzing)
    /\ isAnalyzing ~> ~isAnalyzing
C9_Witness ==
    /\ AnalyzeReturned
    /\ Returned("analyzeImage", FALSE)
    /\ ~isAnalyzing
    /\ At("generateText") # {}
\* C10: with nothing interleaved, a startCapture call returns true with
\* isCapturing true and currentStream the stream it acquired, or false with
\* isCapturing false, currentStream empty and analysisError set.
C10_StartOutcome ==
    /\ Returned("startCapture", TRUE) =>
          /\ isCapturing
          /\ currentStream = acquired
          /\ currentStream \in liveStreams
    /\ Returned("startCapture", FALSE) =>
          /\ ~isCapturing
          /\ currentStream = NoStream
          /\ analysisError # NoError
C10_Witness ==
    /\ Returned("startCapture", FALSE)
    /\ acquired >= 1
    /\ analysisError # NoError

\* C11: stopCapture, from any state, stops every track of the held stream,
\* leaves currentStream empty, isCapturing false and previewImageDataUrl
\* empty, and leaves lastAnalysisResult, analysisError, isAnalyzing and the
\* persisted settings as they were; a second call right after it, or a call
\* with no stream held, changes nothing more than one call does.
StopCaptureReturned == [caller |-> "api", op |-> "stopCapture", ok |-> TRUE, exit |-> ""]
C11_StopCapture ==
    /\ [][ev' = <<StopCaptureReturned>> =>
            /\ liveStreams' = liveStreams \ {currentStream}
            /\ currentStream' = NoStream
            /\ ~isCapturing'
            /\ previewImageDataUrl' = NoImage
            /\ UNCHANGED <<lastAnalysisResult, analysisError, isAnalyzing, settings>>]_vars
    /\ [](stopCapture(stopCapture(State)) = stopCapture(State))
    /\ [](currentStream = NoStream =>
            stopCapture(State) = [State EXCEPT !.isCapturing = FALSE,
                                               !.previewImageDataUrl = NoImage])
C11_Witness ==
    /\ ev = <<StopCaptureReturned>>
    /\ acquired >= 1
    /\ liveStreams = {}
    /\ lastAnalysisResult.description = "A code editor is open."
    /\ analysisError # NoError
    /\ isAnalyzing

\* A call came to wait at the await pc in this step.
Entered(pc) ==
    \E f \in BagToSet(calls') : f.pc = pc /\ CopiesIn(f, calls') > CopiesIn(f, calls)

\* C12: captureFrame called when no stream is held returns empty in the same
\* step, sets analysisError to the no-stream message and changes neither
\* previewImageDataUrl nor lastAnalysisResult nor isCapturing; a call made
\* with no stream held never comes to wait for the video.
NoStreamMessage == <<"No capture stream available. Start capture first.">>
CaptureFrameNoStream ==
    \E i \in 1..Len(ev) : ev[i].op = "captureFrame" /\ ev[i].exit = "no stream"
C12_NoStream ==
    /\ [][CaptureFrameNoStream' =>
            /\ currentStream = NoStream
            /\ ~Returned("captureFrame", TRUE)'
            /\ analysisError' = NoStreamMessage
            /\ UNCHANGED <<previewImageDataUrl, lastAnalysisResult, isCapturing,
                           currentStream, calls>>]_vars
    /\ [][Entered("play") => currentStream # NoStream]_vars
C12_Witness ==
    /\ CaptureFrameNoStream
    /\ acquired >= 1
    /\ lastAnalysisResult # NoResult
    /\ analysisError = NoStreamMessage

\* C13: with the provider or the model unset, analyzeImage returns empty in
\* the same step with analysisError the configuration message, lets no call
\* come to wait for a provider and leaves isAnalyzing false; captureAndAnalyze
\* with a stream held then returns empty only after its frame was captured
\* and stored in previewImageDataUrl.
ConfigMessage == <<"Vision provider and model must be configured">>
Unconfigured ==
    \E i \in 1..Len(ev) : ev[i].op = "analyzeImage" /\ ev[i].exit = "unconfigured"
C13_Unconfigured ==
    /\ [][Unconfigured' =>
            /\ ~configured(State)
            /\ ~Returned("analyzeImage", TRUE)'
            /\ analysisError' = ConfigMessage
            /\ UNCHANGED <<isAnalyzing, lastAnalysisResult, timerRequests>>]_vars
    /\ [][~configured(State) =>
            /\ ~Entered("getProviderInstance")
            /\ isAnalyzing' => isAnalyzing]_vars
    /\ [][~configured(State) /\ Returned("captureFrame", TRUE)'
             /\ (\E f \in Suspended : f.op = "captureAndAnalyze") =>
            /\ ev' = <<[caller |-> "api", op |-> "captureFrame", ok |-> TRUE,
                        exit |-> "frame"],
                       [caller |-> "api", op |-> "analyzeImage", ok |-> FALSE,
                        exit |-> "unconfigured"],
                       [caller |-> "api", op |-> "captureAndAnalyze", ok |-> FALSE,
                        exit |-> "analyzed"]>>
            /\ previewImageDataUrl' # NoImage
            /\ analysisError' = ConfigMessage]_vars
C13_Witness ==
    /\ Unconfigured
    /\ Returned("captureAndAnalyze", FALSE)
    /\ Returned("captureFrame", TRUE)
    /\ previewImageDataUrl # NoImage
    /\ isCapturing
    /\ ~isAnalyzing
    /\ analysisError = ConfigMessage

\* C14: a step in which captureFrame returns empty invokes no analyzeImage,
\* brings no call to wait for a provider and leaves isAnalyzing and
\* lastAnalysisResult as they were; the captureAndAnalyze that made the call
\* returns empty in that step; and a captureAndAnalyze call comes to wait
\* for a provider only in a step in which its captureFrame returned an image.
FrameEmpty == \E i \in 1..Len(ev) : ev[i].op = "captureFrame" /\ ~ev[i].ok
NoFrame == [caller |-> "api", op |-> "captureAndAnalyze", ok |-> FALSE,
            exit |-> "no frame"]
C14_ShortCircuit ==
    /\ [][FrameEmpty' =>
            /\ \A i \in 1..Len(ev') : ev'[i].op # "analyzeImage"
            /\ ~Entered("getProviderInstance")
            /\ ~Entered("generateText")
            /\ UNCHANGED <<isAnalyzing, lastAnalysisResult>>]_vars
    /\ [][FrameEmpty' /\ (\E f \in Suspended : f.op = "captureAndAnalyze") =>
            /\ ev'[Len(ev')] = NoFrame
            /\ calls' = EmptyBag]_vars
    /\ [](\A i \in 1..Len(ev) :
            ev[i] = NoFrame => i > 1 /\ ev[i - 1].op = "captureFrame" /\ ~ev[i - 1].ok)
    /\ [][(\E f \in BagToSet(calls') :
              f.op = "captureAndAnalyze" /\ f.pc = "getProviderInstance") =>
            Returned("captureFrame", TRUE)']_vars
    /\ [](\A f \in Analyzing : f.op = "captureAndAnalyze" => f.img # NoImage)
C14_Witness ==
    /\ \E i \in 1..Len(ev) : ev[i] = NoFrame
    /\ isCapturing
    /\ lastAnalysisResult # NoResult
    /\ ~isAnalyzing

\* A call waiting at the await pc went on in this step.
ResumedAt(pc) == \E f \in At(pc) : CopiesIn(f, calls') < CopiesIn(f, calls)

\* What C15 says of the response and of the failure: a call that returns a
\* result was waiting for its provider request, the result recorded is
\* {timestamp = now, description = the text, empty when there is none}; a
\* call that fails sets analysisError to a message, returns empty and leaves
\* lastAnalysisResult as it was; and a call comes to wait for a response
\* only from waiting for its provider instance, one request at a time.
AnalyzeFailed ==
    \E i \in 1..Len(ev) : ev[i].op = "analyzeImage" /\ ev[i].exit = "catch"
AnalyzeOutcome ==
    /\ [][Returned("analyzeImage", TRUE)' =>
            /\ ResumedAt("generateText")
            /\ clock' = clock + 1
            /\ lastAnalysisResult'.timestamp = clock'
            /\ lastAnalysisResult'.description \in ResponseTexts \ {"undefined"}
            /\ ~AnalyzeFailed'
            /\ UNCHANGED analysisError]_vars
    /\ [][AnalyzeFailed' =>
            /\ ~Returned("analyzeImage", TRUE)'
            /\ analysisError' # NoError
            /\ analysisError'[1] = "Analysis failed: "
            /\ UNCHANGED lastAnalysisResult]_vars
    /\ [][Entered("generateText") =>
            /\ ResumedAt("getProviderInstance")
            /\ BagCardinality(calls') = BagCardinality(calls)
            /\ Requests' = Requests + 1]_vars
    /\ [][Entered("getProviderInstance") =>
            BagCardinality(calls') = BagCardinality(calls) + 1]_vars

\* C15 as stated: every configured analyzeImage call issues exactly one
\* provider request, so it returns only from waiting for the response.
C15_ExactlyOneRequest ==
    /\ AnalyzeOutcome
    /\ [][AnalyzeReturned' => ResumedAt("generateText")]_vars

\* C15: a configured analyzeImage call issues at most one provider request,
\* and none when the provider instance cannot be obtained; a successful
\* response is recorded as lastAnalysisResult, {timestamp = now, description =
\* the text or the empty string}, and returned, an empty description
\* included; a failure sets analysisError to a message, returns empty and
\* leaves lastAnalysisResult as it was.
C15_AtMostOneRequest ==
    /\ AnalyzeOutcome
    /\ [][AnalyzeReturned' =>
            \/ ResumedAt("generateText")
            \/ ResumedAt("getProviderInstance") /\ AnalyzeFailed']_vars
C15_Witness ==
    /\ Returned("analyzeImage", TRUE)
    /\ lastAnalysisResult = [timestamp |-> 2, description |-> ""]
    /\ analysisError = NoError
    /\ Analyzing # {}

\* A call of the operation op came to wait at the await pc in this step.
EnteredBy(op, pc) ==
    \E f \in BagToSet(calls') :
        f.op = op /\ f.pc = pc /\ CopiesIn(f, calls') > CopiesIn(f, calls)

\* C16: when startCapture comes to wait for the directory or for the device,
\* and when analyzeImage comes to wait for its provider, analysisError is
\* empty; and, with nothing interleaved, analysisError is empty when
\* startCapture returns true and when analyzeImage or captureAndAnalyze
\* returns a result.
C16_ErrorCleared ==
    /\ [][EnteredBy("startCapture", "ipc") \/ EnteredBy("startCapture", "device") =>
            analysisError' = NoError]_vars
    /\ [][Entered("getProviderInstance") => analysisError' = NoError]_vars
    /\ [](Returned("startCapture", TRUE) => analysisError = NoError)
    /\ [](Returned("analyzeImage", TRUE) => analysisError = NoError)
    /\ [](Returned("captureAndAnalyze", TRUE) => analysisError = NoError)
C16_Witness ==
    /\ Returned("captureAndAnalyze", TRUE)
    /\ analysisError = NoError
    /\ acquired = 2
    /\ lastAnalysisResult.timestamp = 2

\* A frame was drawn and encoded in the last step.
Drawn == canvas # NoCanvas
Distance(a, b) == IF a >= b THEN a - b ELSE b - a

\* C17: the size (w', h') of a frame drawn from a source of size (w, h)
\* under the bounds (maxW, maxH) has w' <= maxW, h' <= maxH, w' <= w and
\* h' <= h, is (w, h) when the source fits the bounds, and otherwise is
\* within one pixel, on each axis, of (w*s, h*s) for s = min(maxW/w, maxH/h).
C17_ScaledSize ==
    Drawn =>
        LET w == video.width
            h == video.height
            maxW == Options(canvas.options).maxWidth
            maxH == Options(canvas.options).maxHeight
        IN /\ canvas.width <= maxW /\ canvas.height <= maxH
           /\ canvas.width <= w /\ canvas.height <= h
           /\ w <= maxW /\ h <= maxH => canvas.width = w /\ canvas.height = h
           /\ w > maxW \/ h > maxH =>
                 IF maxW * h <= maxH * w
                 THEN /\ Distance(canvas.width, maxW) <= 1
                      /\ Distance(canvas.height * w, h * maxW) <= w
                 ELSE /\ Distance(canvas.width * h, w * maxH) <= h
                      /\ Distance(canvas.height, maxH) <= 1

\* C18: a frame captured without per-call options is no larger than the
\* persisted maxImageWidth and maxImageHeight and is encoded at the persisted
\* compressionQuality; per-call options replace these for their call only.
C18_PersistedBounds ==
    Drawn =>
        IF canvas.options = NoOptions
        THEN /\ canvas.width <= settings.maxImageWidth
             /\ canvas.height <= settings.maxImageHeight
             /\ canvas.quality = settings.compressionQuality
        ELSE /\ canvas.options.maxWidth # Absent =>
                    canvas.width <= canvas.options.maxWidth
             /\ canvas.options.maxHeight # Absent =>
                    canvas.height <= canvas.options.maxHeight
             /\ canvas.options.quality # Absent =>
                    canvas.quality = canvas.options.quality

\* C19: startContinuousCapture changes nothing when analysisMode is not
\* continuous; otherwise it leaves exactly one live timer, the one
\* captureIntervalId refers to, ticking at captureIntervalMs; at any time at
\* most one timer is live and it is that one, so no timer the store lost
\* track of is left to fire; and after stopContinuousCapture, as after
\* resetState, no timer is live.
ContinuousReturned(op) == [caller |-> "api", op |-> op, ok |-> TRUE, exit |-> ""]
C19_OneTimer ==
    /\ [][ev' = <<ContinuousReturned("startContinuousCapture")>> =>
            IF settings.analysisMode # "continuous"
            THEN UNCHANGED <<settings, isCapturing, isAnalyzing, lastAnalysisResult,
                             analysisError, currentStream, previewImageDataUrl,
                             captureIntervalId, timers, liveStreams, calls>>
            ELSE /\ captureIntervalId' # NoTimer
                 /\ timers' = {[id |-> captureIntervalId',
                                interval |-> settings.captureIntervalMs]}]_vars
    /\ [](Cardinality(timers) <= 1)
    /\ [](\A t \in timers : t.id = captureIntervalId)
    /\ [][ev' = <<ContinuousReturned("stopContinuousCapture")>> =>
            timers' = {} /\ captureIntervalId' = NoTimer]_vars
    /\ [][ev' = <<ContinuousReturned("resetState")>> =>
            timers' = {} /\ captureIntervalId' = NoTimer]_vars
C19_Witness ==
    /\ ev = <<ContinuousReturned("startContinuousCapture")>>
    /\ timers = {[id |-> 1, interval |-> 2000]}
    /\ captureIntervalId = 1
    /\ isCapturing

\* C20: in every reachable state where a continuous-capture timer is live,
\* analysisMode is continuous.
C20_TimerOnlyContinuous == timers # {} => settings.analysisMode = "continuous"

\* C21: when resetState returns, from any state, no timer is live, the
\* stream that was held is stopped and currentStream is empty, isCapturing
\* is false, every persisted setting has its default, and
\* lastAnalysisResult, analysisError and previewImageDataUrl are empty.
C21_ResetState ==
    [][ev' = <<ContinuousReturned("resetState")>> =>
          /\ timers' = {}
          /\ captureIntervalId' = NoTimer
          /\ currentStream' = NoStream
          /\ liveStreams' = liveStreams \ {currentStream}
          /\ ~isCapturing'
          /\ settings' = DefaultSettings
          /\ lastAnalysisResult' = NoResult
          /\ analysisError' = NoError
          /\ previewImageDataUrl' = NoImage]_vars
C21_Witness ==
    /\ ev = <<ContinuousReturned("resetState")>>
    /\ settings = DefaultSettings
    /\ timerRequests >= 1
    /\ acquired >= 1
    /\ liveStreams = {}
    /\ clock >= 1
    /\ calls # EmptyBag

\* A startCapture call that waited for the directory resumed in this step.
StartCaptureFetched ==
    \E f \in At("ipc") : f.op = "startCapture" /\ CopiesIn(f, calls') < CopiesIn(f, calls)

\* C22 as stated: a persisted setting changes only in a step in which
\* resetState returns.
C22_OnlyResetState ==
    [][settings' # settings => ev' = <<ContinuousReturned("resetState")>>]_vars

\* C22: a persisted setting changes only in a step in which resetState
\* returns, or in a step in which a startCapture call that fetched the
\* directory resumes with a non-empty list; that step changes
\* selectedDesktopSourceId alone, to the id of the source startCapture
\* chose. stopCapture, captureFrame, analyzeImage, captureAndAnalyze,
\* startContinuousCapture, stopContinuousCapture and a fetchDesktopSources
\* call of its own change no persisted setting.
C22_ResetOrAutoSelect ==
    [][settings' # settings =>
          \/ ev' = <<ContinuousReturned("resetState")>>
          \/ /\ StartCaptureFetched
             /\ isElectron
             /\ availableDesktopSources' # <<>>
             /\ settings' =
                  [settings EXCEPT !.selectedDesktopSourceId =
                      DefaultSource(availableDesktopSources',
                                    IF settings.captureSource = "screen"
                                    THEN "screen" ELSE "window").id]]_vars
C22_Witness ==
    /\ settings.selectedDesktopSourceId = ScreenId
    /\ \E f \in At("device") : f.op = "startCapture" /\ f.sid = ScreenId

\* C23: no call of a public operation is lost to a failure: a call that
\* resumes from a directory, device, video or provider request either
\* returns to its caller in that step or comes to wait for its next request;
\* a return through a catch block is a return of the sentinel; and whenever
\* startCapture, captureFrame, analyzeImage or captureAndAnalyze returns its
\* sentinel, analysisError holds a message.
C23_NoUncaughtFailure ==
    /\ [][\A f \in Suspended :
            CopiesIn(f, calls') < CopiesIn(f, calls) =>
                \/ \E i \in 1..Len(ev') :
                      ev'[i].caller = f.caller /\ ev'[i].op = f.op
                \/ \E g \in BagToSet(calls') :
                      /\ g.caller = f.caller /\ g.op = f.op
                      /\ CopiesIn(g, calls') > CopiesIn(g, calls)]_vars
    /\ [](\A i \in 1..Len(ev) : ev[i].exit = "catch" => ~ev[i].ok)
    /\ [](\A i \in 1..Len(ev) :
            /\ ev[i].op \in {"startCapture", "captureFrame", "analyzeImage",
                             "captureAndAnalyze"}
            /\ ~ev[i].ok
            => analysisError # NoError)
C23_Witness ==
    /\ Returned("fetchDesktopSources", FALSE)
    /\ Returned("startCapture", FALSE)
    /\ analysisError = <<"No screen or window sources available.">>
    /\ lastAnalysisResult # NoResult

\* The device request of a startCapture call on the given branch was
\* rejected in this step with a failure of the given name.
Rejected(branch, name) ==
    /\ \E f \in At("device") :
          f.branch = branch /\ CopiesIn(f, calls') < CopiesIn(f, calls)
    /\ \E i \in 1..Len(ev') :
          ev'[i].op = DeviceRequest(branch) /\ ev'[i].exit = name
CameraDenied ==
    <<"Camera access was denied. Please allow camera permissions and try again.">>
NoCamera == <<"No camera found. Please connect a camera and try again.">>
ScreenDenied ==
    <<"Screen capture was denied. Please allow screen sharing permissions.">>

\* C24: with the camera as source, a permission-denied failure of the device
\* request gives the camera-denied message, a device-not-found failure the
\* no-camera message, any other failure the generic message followed by the
\* failure's text, and in each case startCapture returns false and
\* isCapturing is false; in the browser, a permission-denied failure of the
\* display-capture request gives the screen-capture-denied message.
C24_DeviceErrorMapping ==
    [][/\ Rejected("camera", "NotAllowedError") => analysisError' = CameraDenied
       /\ Rejected("camera", "NotFoundError") => analysisError' = NoCamera
       /\ Rejected("camera", "AbortError") =>
             /\ Len(analysisError') = 2
             /\ analysisError'[1] = "Camera capture failed: "
       /\ (\E name \in {e.name : e \in DeviceErrors} : Rejected("camera", name)) =>
             /\ \E i \in 1..Len(ev') : ev'[i].op = "startCapture" /\ ~ev'[i].ok
             /\ ~isCapturing'
       /\ Rejected("display", "NotAllowedError") => analysisError' = ScreenDenied]_vars

\* startCapture finds itself in the desktop shell, asked for a screen or a
\* window, with no source selected.
NoSourceSelected ==
    /\ isElectron
    /\ settings.captureSource \in {"screen", "window"}
    /\ settings.selectedDesktopSourceId = NoSourceId
\* startCapture was called in this step: a call of it came to wait, or
\* returned, and no waiting call went on.
StartCaptureCalled ==
    /\ \A f \in Suspended : CopiesIn(f, calls') >= CopiesIn(f, calls)
    /\ \/ EnteredBy("startCapture", "ipc")
       \/ EnteredBy("startCapture", "device")
       \/ \E i \in 1..Len(ev') : ev'[i].op = "startCapture"
NoSourcesMessage == <<"No screen or window sources available.">>

\* C25: in the desktop shell, with a screen or a window as source and no
\* source selected, startCapture makes the directory request at its call and
\* never a second one; when the list is empty as the call resumes, whether
\* the directory was empty or the request failed, startCapture returns false
\* with the no-sources message, makes no device request and leaves
\* selectedDesktopSourceId, as every persisted setting, as it was.
C25_NoSources ==
    /\ [][StartCaptureCalled /\ NoSourceSelected =>
            EnteredBy("startCapture", "ipc")]_vars
    /\ [][EnteredBy("startCapture", "ipc") => StartCaptureCalled]_vars
    /\ [][StartCaptureFetched /\ availableDesktopSources' = <<>> =>
            /\ \E i \in 1..Len(ev') : ev'[i].op = "startCapture" /\ ~ev'[i].ok
            /\ analysisError' = NoSourcesMessage
            /\ ~Entered("device")
            /\ settings' = settings]_vars
C25_Witness ==
    /\ Returned("fetchDesktopSources", TRUE)
    /\ Returned("startCapture", FALSE)
    /\ analysisError = NoSourcesMessage
    /\ availableDesktopSources = <<>>
    /\ settings.selectedDesktopSourceId = NoSourceId
    /\ At("device") = {}

\* A startCapture call came to wait for the device in this step, its request
\* constrained to the source id.
RequestedSource(id) ==
    \E f \in BagToSet(calls') :
        /\ f.op = "startCapture" /\ f.pc = "device" /\ f.branch = "electron"
        /\ f.sid = id
        /\ CopiesIn(f, calls') > CopiesIn(f, calls)

\* C26: in the desktop shell, when startCapture resumes from the directory
\* request it made for want of a selected source and the list is not empty,
\* it selects the first entry of the requested type (screen or window), and
\* the first entry of the list only when no entry has that type, and its
\* device request is constrained to the id of that entry; a call made with a
\* source already selected makes no directory request and constrains its
\* device request to the selected id.
C26_DefaultSource ==
    /\ [][StartCaptureFetched /\ availableDesktopSources' # <<>> =>
            LET list == availableDesktopSources'
                requested == IF settings.captureSource = "screen"
                             THEN "screen" ELSE "window"
            IN \E i \in 1..Len(list) :
                  /\ \/ /\ list[i].type = requested
                        /\ \A j \in 1..(i - 1) : list[j].type # requested
                     \/ /\ i = 1
                        /\ \A j \in 1..Len(list) : list[j].type # requested
                  /\ settings'.selectedDesktopSourceId = list[i].id
                  /\ mediaDevices => RequestedSource(list[i].id)]_vars
    /\ [][/\ StartCaptureCalled
          /\ isElectron
          /\ settings.captureSource \in {"screen", "window"}
          /\ settings.selectedDesktopSourceId # NoSourceId
          => /\ ~Entered("ipc")
             /\ settings' = settings
             /\ mediaDevices => RequestedSource(settings.selectedDesktopSourceId)]_vars
C26_Witness ==
    /\ Returned("fetchDesktopSources", TRUE)
    /\ settings.captureSource = "screen"
    /\ availableDesktopSources =
          <<[id |-> WindowId, type |-> "window"], [id |-> ScreenId, type |-> "screen"],
            [id |-> Screen2Id, type |-> "screen"]>>
    /\ settings.selectedDesktopSourceId = ScreenId
    /\ \E f \in At("device") : f.op = "startCapture" /\ f.sid = ScreenId

\* The list fetchDesktopSources is to make of a directory's answer.
Listing(sources) ==
    [i \in 1..Len(sources) |->
        [id |-> sources[i],
         type |-> IF sources[i][1] = "screen:" THEN "screen" ELSE "window"]]
\* fetchDesktopSources returned in the last step, with the list or without.
FetchReturned(ok) ==
    \E i \in 1..Len(ev) : ev[i].op = "fetchDesktopSources" /\ ev[i].ok = ok
\* A call of fetchDesktopSources itself, not startCapture's, resumed.
OwnFetchResumed ==
    \E f \in At("ipc") :
        f.op = "fetchDesktopSources" /\ CopiesIn(f, calls') < CopiesIn(f, calls)

\* C27: outside the desktop shell a call of fetchDesktopSources returns at
\* once and changes nothing; in the desktop shell the call resumes from the
\* directory request and returns in that step with isLoadingDesktopSources
\* false: on an answer, availableDesktopSources is the answer's sources in
\* their order, each typed screen exactly when its id starts with 'screen:'
\* and window otherwise; on a failure, availableDesktopSources is empty and
\* analysisError is as it was.
C27_FetchDesktopSources ==
    /\ [][~isElectron /\ (\E i \in 1..Len(ev') : ev'[i].op = "fetchDesktopSources") =>
            UNCHANGED <<settings, isCapturing, isAnalyzing, lastAnalysisResult,
                        analysisError, currentStream, previewImageDataUrl,
                        availableDesktopSources, isLoadingDesktopSources,
                        captureIntervalId, timers, liveStreams, calls>>]_vars
    /\ [](\A f \in At("ipc"), sources \in Directories :
            fetchDesktopSourcesResponse(Resume(State, f), f, TRUE, sources)
                .availableDesktopSources = Listing(sources))
    /\ [][ResumedAt("ipc") =>
            /\ \E i \in 1..Len(ev') : ev'[i].op = "fetchDesktopSources"
            /\ ~isLoadingDesktopSources'
            /\ availableDesktopSources' \in {Listing(sources) : sources \in Directories}]_vars
    /\ [](FetchReturned(FALSE) => availableDesktopSources = <<>>)
    /\ [][OwnFetchResumed => analysisError' = analysisError]_vars
C27_Witness ==
    /\ ev = <<[caller |-> "api", op |-> "fetchDesktopSources", ok |-> FALSE,
               exit |-> "finally"]>>
    /\ availableDesktopSources = <<>>
    /\ ~isLoadingDesktopSources
    /\ analysisError # NoError
    /\ settings.selectedDesktopSourceId = ScreenId

\* C28: isLoadingDesktopSources is true exactly when a directory request is
\* outstanding, whoever made it: startCapture, the page's watcher of the
\* capture source, or its refresh control.
C28_LoadingIffOutstanding == isLoadingDesktopSources <=> At("ipc") # {}

\* An analyzeImage call waits for its provider.
AnalysisCalls == At("getProviderInstance") \cup At("generateText")

\* C29: stopCapture leaves every suspended call as it was, so an analysis
\* request made while capturing stays outstanding; an analysis call ceases
\* to wait only in a step in which it resumes, going on to its request or
\* returning; and when the response arrives, whether isCapturing is true or
\* false by then, the call returns with isAnalyzing false, having written
\* lastAnalysisResult on a response, or analysisError, with
\* lastAnalysisResult untouched, on a failure.
C29_LateResponse ==
    /\ [][ev' = <<StopCaptureReturned>> => calls' = calls]_vars
    /\ [][\A f \in AnalysisCalls :
            CopiesIn(f, calls') < CopiesIn(f, calls) =>
                \/ \E i \in 1..Len(ev') :
                      ev'[i].op = "analyzeImage" /\ ev'[i].caller = f.caller
                \/ /\ f.pc = "getProviderInstance"
                   /\ CopiesIn([f EXCEPT !.pc = "generateText"], calls')
                        > CopiesIn([f EXCEPT !.pc = "generateText"], calls)]_vars
    /\ [][ResumedAt("generateText") =>
            /\ ~isAnalyzing'
            /\ \/ /\ \E i \in 1..Len(ev') :
                        ev'[i].op = "analyzeImage" /\ ev'[i].ok
                  /\ lastAnalysisResult'.timestamp = clock'
                  /\ lastAnalysisResult' # lastAnalysisResult
                  /\ analysisError' = analysisError
               \/ /\ \E i \in 1..Len(ev') :
                        ev'[i].op = "analyzeImage" /\ ~ev'[i].ok
                  /\ analysisError' # NoError
                  /\ lastAnalysisResult' = lastAnalysisResult]_vars
C29_Witness ==
    /\ Returned("analyzeImage", TRUE)
    /\ ~isCapturing
    /\ currentStream = NoStream
    /\ lastAnalysisResult.timestamp = clock
    /\ lastAnalysisResult.description = "A code editor is open."
    /\ ~isAnalyzing

\* C30: whichever of the outstanding analysis requests is answered, and
\* whenever it was made, the response is recorded as it arrives:
\* lastAnalysisResult becomes the result stamped with the time of arrival,
\* so that it is at any time the result of the response that arrived last
\* (or empty, before the first response and after resetState); a request
\* that fails leaves lastAnalysisResult as it was, and nothing but a
\* response and resetState changes it.
C30_LastResponseWins ==
    /\ [][ResumedAt("generateText") /\ Returned("analyzeImage", TRUE)' =>
            /\ clock' = clock + 1
            /\ lastAnalysisResult'.timestamp = clock'
            /\ lastAnalysisResult'.description
                  \in {"A code editor is open.", ""}]_vars
    /\ [](lastAnalysisResult # NoResult => lastAnalysisResult.timestamp = clock)
    /\ [][Returned("analyzeImage", FALSE)' =>
            lastAnalysisResult' = lastAnalysisResult]_vars
    /\ [][lastAnalysisResult' # lastAnalysisResult =>
            \/ ResumedAt("generateText") /\ Returned("analyzeImage", TRUE)'
            \/ ev' = <<ContinuousReturned("resetState")>>]_vars
C30_Witness ==
    /\ Returned("analyzeImage", FALSE)
    /\ lastAnalysisResult = [timestamp |-> 1, description |-> "A code editor is open."]
    /\ clock = 1
    /\ At("generateText") # {}
    /\ Includes(analysisError, "request failed")

\* C31: a step in which captureFrame returns empty, as every earlier step of
\* that call, leaves previewImageDataUrl and lastAnalysisResult as they
\* were; so does a step in which analyzeImage returns empty, as every
\* earlier step of that call (the preview changing only if captureFrame
\* returned a frame in the same step); startCapture clears
\* previewImageDataUrl at its call, and when it returns false
\* previewImageDataUrl is empty and no step of it has changed
\* lastAnalysisResult.
C31_FailuresPreserve ==
    /\ [][Returned("captureFrame", FALSE)' \/ Entered("play") \/ Entered("loadeddata") =>
            UNCHANGED <<previewImageDataUrl, lastAnalysisResult>>]_vars
    /\ [][\/ Returned("analyzeImage", FALSE)'
          \/ Entered("getProviderInstance")
          \/ Entered("generateText") =>
            /\ lastAnalysisResult' = lastAnalysisResult
            /\ \/ previewImageDataUrl' = previewImageDataUrl
               \/ Returned("captureFrame", TRUE)']_vars
    /\ [][\/ StartCaptureCalled
          \/ Returned("startCapture", FALSE)'
          \/ EnteredBy("startCapture", "device") =>
            /\ lastAnalysisResult' = lastAnalysisResult
            /\ previewImageDataUrl' = NoImage]_vars
C31_Witness ==
    /\ AnalyzeFailed
    /\ Returned("captureAndAnalyze", FALSE)
    /\ previewImageDataUrl # NoImage
    /\ lastAnalysisResult # NoResult
    /\ ~Returned("captureFrame", TRUE)

\* stopCapture or resetState returned in the last step.
Stopped ==
    \E i \in 1..Len(ev) : ev[i].op \in {"stopCapture", "resetState"}

\* C32: once stopCapture or resetState has returned, and startCapture is
\* not called again, isCapturing is false and currentStream is empty in
\* every later state, whatever startCapture call was waiting for its
\* directory or device request when the stop was made. Stated for the
\* state that follows the one the stop returned in, startCapture being
\* called only as the first operation: that state is not capturing and
\* holds no stream.
C32_StaysStopped ==
    [][Stopped => ~isCapturing' /\ currentStream' = NoStream]_vars

\* C33: in the desktop shell, when startCapture makes the device request it
\* acquires its stream from, with captureSource screen (or window) and
\* availableDesktopSources holding a source of that type, the source id the
\* request is constrained to is of that type.
C33_SourceOfRequestedType ==
    [][\A id \in {ScreenId, Screen2Id, WindowId} :
          /\ RequestedSource(id)
          /\ settings'.captureSource \in {"screen", "window"}
          /\ \E i \in 1..Len(availableDesktopSources') :
                availableDesktopSources'[i].type = settings'.captureSource
          => SourceType(id) = settings'.captureSource]_vars

\* C34: in every reachable state, every live continuous-capture timer ticks
\* at the period the captureIntervalMs setting holds in that state.
C34_TimerPeriod == \A t \in timers : t.interval = settings.captureIntervalMs

\* C35: on the settings page, in every reachable state in which isCapturing
\* is true and analysisMode is continuous, a continuous-capture timer is
\* live.
C35_IndicatorMeansTimer ==
    isCapturing /\ settings.analysisMode = "continuous" => timers # {}

\* What the vision tool does shows as an event of its own (its answer to the
\* chat, a stopCapture call it made, a return to it) or as a call of its
\* own that is suspended.
ToolCallers == {"executeVisionAction", "executeVisionAction fallback"}
ToolActed ==
    \/ \E i \in 1..Len(ev') : ev'[i].caller \in ToolCallers \cup {"chat"}
    \/ \E f \in BagToSet(calls') : f.caller \in ToolCallers
ToolCall(source) ==
    [caller |-> "chat", op |-> "executeVisionAction(input)", ok |-> TRUE,
     exit |-> source]
ToolAnswer(message) ==
    [caller |-> "chat", op |-> "executeVisionAction",
     ok |-> message = "description", exit |-> message]

\* C36: when the vision provider or model is unset, a call of
\* executeVisionAction returns the not-configured message and nothing else
\* happens: no stopCapture or startCapture call, captureSource and the rest
\* of the store unchanged, no device, directory or provider request made,
\* for every action, source and query.
C36_NotConfigured ==
    /\ [][~configured(State) /\ ToolActed =>
            /\ \E source \in {"", "screen", "window", "camera"} :
                  ev' = <<ToolCall(source), ToolAnswer("not configured")>>
            /\ UNCHANGED <<settings, isCapturing, isAnalyzing, lastAnalysisResult,
                           analysisError, currentStream, previewImageDataUrl,
                           availableDesktopSources, isLoadingDesktopSources,
                           captureIntervalId, timers, liveStreams, acquired,
                           calls>>]_vars
    /\ [][(\E i \in 1..Len(ev') : ev'[i] = ToolAnswer("not configured"))
            => ~configured(State)]_vars
C36_Witness ==
    /\ ev = <<ToolCall("screen"), ToolAnswer("not configured")>>
    /\ isCapturing
    /\ currentStream # NoStream

ToolAnswered(message) == \E i \in 1..Len(ev) : ev[i] = ToolAnswer(message)
ToolMessages ==
    {"failed to start", "analysis failed", "no result", "description"}

\* C37: with vision configured and nothing interleaved, when
\* executeVisionAction returns no stream is held: isCapturing is false,
\* currentStream is empty and every stream acquired so far has its tracks
\* stopped, whichever of its answers it returns and whether or not a
\* capture was active before the call.
C37_NoStreamHeld ==
    (\E message \in ToolMessages : ToolAnswered(message))
        => ~isCapturing /\ currentStream = NoStream /\ liveStreams = {}
C37_Witness ==
    /\ ToolAnswered("analysis failed")
    /\ acquired = 2
    /\ ~isCapturing /\ liveStreams = {}

\* A startCapture() call of the tool, the first or the fallback, begins in
\* a step: it is suspended at the end of the step, or it has returned in
\* the step, and it was not suspended before.
ToolStartBegins(caller) ==
    /\ ~\E f \in BagToSet(calls) : f.caller = caller /\ f.op = "startCapture"
    /\ \/ \E f \in BagToSet(calls') : f.caller = caller /\ f.op = "startCapture"
       \/ \E i \in 1..Len(ev') :
             ev'[i].caller = caller /\ ev'[i].op = "startCapture"
ToolStartFailed(caller) ==
    \E i \in 1..Len(ev') :
        ev'[i].caller = caller /\ ev'[i].op = "startCapture" /\ ~ev'[i].ok
ToolCalledWith(source) == \E i \in 1..Len(ev') : ev'[i] = ToolCall(source)
\* The capture source of the tool's first startCapture(): input.source when
\* the call of this step gave one, else what the setting held.
FirstSource ==
    IF \E source \in {"screen", "window", "camera"} : ToolCalledWith(source)
    THEN CHOOSE source \in {"screen", "window", "camera"} : ToolCalledWith(source)
    ELSE settings.captureSource
ToolCaptured ==
    \/ \E i \in 1..Len(ev') :
          /\ ev'[i].caller \in ToolCallers
          /\ ev'[i].op \in {"captureAndAnalyze", "captureFrame", "analyzeImage"}
    \/ \E f \in BagToSet(calls') :
          f.caller \in ToolCallers /\ f.op = "captureAndAnalyze"

\* C38: executeVisionAction calls startCapture once when it is called
\* (configured), and a second time, with captureSource set to camera,
\* exactly when the first call failed and the source was not camera; no
\* other startCapture call of the tool begins. Without a fallback the tool
\* changes captureSource only to input.source when one is given. When the
\* last attempt fails the tool returns the failed-to-start message in the
\* same step, with no call of it left and no frame captured or analyzed.
C38_CameraFallback ==
    /\ [][ToolStartBegins("executeVisionAction")
            <=> configured(State)
                /\ \E source \in {"", "screen", "window", "camera"} :
                      ToolCalledWith(source)]_vars
    /\ [][ToolStartBegins("executeVisionAction fallback")
            <=> ToolStartFailed("executeVisionAction") /\ FirstSource # "camera"]_vars
    /\ [][ToolStartBegins("executeVisionAction fallback")
            => settings'.captureSource = "camera"]_vars
    /\ [][(/\ configured(State)
           /\ ToolActed
           /\ ~ToolStartBegins("executeVisionAction fallback"))
          => settings'.captureSource = FirstSource]_vars
    /\ [][(\/ ToolStartFailed("executeVisionAction fallback")
           \/ ToolStartFailed("executeVisionAction") /\ FirstSource = "camera")
          => /\ \E i \in 1..Len(ev') : ev'[i] = ToolAnswer("failed to start")
             /\ ~ToolCaptured
             /\ ~\E f \in BagToSet(calls') : f.caller \in ToolCallers]_vars
    /\ [][ToolStartFailed("executeVisionAction") => ~ToolCaptured]_vars
C38_Witness ==
    /\ mediaDevices
    /\ \E i \in 1..Len(ev) :
          /\ ev[i].caller = "executeVisionAction fallback"
          /\ ev[i].op = "startCapture" /\ ~ev[i].ok
    /\ ToolAnswered("failed to start")
    /\ settings.captureSource = "camera"
    /\ Includes(analysisError, "No camera found. Please connect a camera and try again.")

ToolAnalyzed(ok) ==
    \E i \in 1..Len(ev) :
        /\ ev[i].caller = "executeVisionAction"
        /\ ev[i].op = "captureAndAnalyze"
        /\ ev[i].ok = ok

\* C39: after a successful capture start, in the step in which the tool's
\* captureAndAnalyze call returns, executeVisionAction answers with the
\* description exactly when the call returned a result whose description is
\* not empty, with the analysis-failed message exactly when the call
\* failed, and with the no-result message when the description is empty,
\* also while a continuous-capture timer of the same store is running.
C39_AnswerFollowsCall ==
    /\ ToolAnswered("description")
          <=> ToolAnalyzed(TRUE) /\ lastAnalysisResult.description # ""
    /\ ToolAnswered("analysis failed") <=> ToolAnalyzed(FALSE)
    /\ ToolAnalyzed(TRUE) /\ lastAnalysisResult.description = ""
          => ToolAnswered("no result")
====
